---- MODULE Spec2Model ----
(***************************************************************************)
(* Model of the switch-exhaustiveness-check rule                           *)
(* (packages/eslint-plugin/src/rules/switch-exhaustiveness-check.ts).      *)
(*                                                                         *)
(* A text is a sequence of tokens.  A token is either one of the four      *)
(* characters the rule's escaping is about (SQ, BSL, NL, CR) or a chunk of *)
(* characters that contains none of them, so that a regular-expression     *)
(* replace over the characters is a replace over the tokens.               *)
(* An optional value (x | undefined) is a sequence of length 0 or 1.       *)
(***************************************************************************)
EXTENDS Integers, Sequences, FiniteSets, TLC

\* ------------------------------------------------------------------ bounds
MaxUnion == 2
MaxCases == 2
MaxColumn == 1

\* ------------------------------------------------------- characters, null
Null == 0
SQ == "'"
BSL == "\\"
NL == "\n"
CR == "\r"

\* --------------------------------------------- the type checker's handles
\* 1 "a"            string literal type
\* 2 "a"            another handle that renders to the same string
\* 3 E["it's\n\r"]  enum member whose name holds a quote, a newline and a CR
\* 4 E["a\\"]       enum member whose name ends in a backslash
\* 5 string & {..}  an intersection
\* 6 unique symbol  declared as `a`
\* 7 symbol         the intrinsic symbol type, which has no symbol
TypeTable ==
  << [display |-> <<"\"a\"">>, symbol |-> <<>>,
      isIntersection |-> FALSE, symbolLike |-> FALSE],
     [display |-> <<"\"a\"">>, symbol |-> <<>>,
      isIntersection |-> FALSE, symbolLike |-> FALSE],
     [display |-> <<"E[\"it", SQ, "s", BSL, "n", BSL, "r\"]">>,
      symbol |-> << <<"it", SQ, "s", NL, CR>> >>,
      isIntersection |-> FALSE, symbolLike |-> FALSE],
     [display |-> <<"E[\"a", BSL, BSL, "\"]">>,
      symbol |-> << <<"a", BSL>> >>,
      isIntersection |-> FALSE, symbolLike |-> FALSE],
     [display |-> <<"string & { __brand: void; }">>, symbol |-> <<>>,
      isIntersection |-> TRUE, symbolLike |-> FALSE],
     [display |-> <<"unique symbol">>, symbol |-> << <<"a">> >>,
      isIntersection |-> FALSE, symbolLike |-> TRUE],
     [display |-> <<"symbol">>, symbol |-> <<>>,
      isIntersection |-> FALSE, symbolLike |-> TRUE] >>

Handles == 1..Len(TypeTable)

\* test expressions and the handle each resolves to; expressions 1 and 2
\* are two different expressions of the same type
ExprTypes == <<1, 1, 2, 3>>

Exprs == 1..Len(ExprTypes)

GetConstrainedTypeAtLocation(expr) == ExprTypes[expr]

TypeToString(t) == TypeTable[t].display

IsIntersection(t) == TypeTable[t].isIntersection

IsESSymbolLike(t) == TypeTable[t].symbolLike

GetSymbolEscapedName(t) == TypeTable[t].symbol

UnionTypeParts(type) == type.types

IdentifierChunks == {"a", "it", "s", "E"}

RequiresQuoting(name) ==
  \/ name = <<>>
  \/ \E i \in 1..Len(name) : name[i] \notin IdentifierChunks

\* ------------------------------------------------------------ text helpers
Repeat(tok, n) == [i \in 1..n |-> tok]

RECURSIVE ReplaceAll(_, _, _)
ReplaceAll(s, ch, repl) ==
  IF s = <<>> THEN <<>>
  ELSE (IF Head(s) = ch THEN repl ELSE <<Head(s)>>)
         \o ReplaceAll(Tail(s), ch, repl)

RECURSIVE Join(_, _)
Join(parts, sep) ==
  IF parts = <<>> THEN <<>>
  ELSE IF Len(parts) = 1 THEN parts[1]
  ELSE parts[1] \o sep \o Join(Tail(parts), sep)

\* ---------------------------------------------------------------- fixSwitch
EscapeBranchName(missingBranchName) ==
  ReplaceAll(ReplaceAll(ReplaceAll(missingBranchName,
                                   SQ, <<BSL, SQ>>),
                        NL, <<BSL, "n">>),
             CR, <<BSL, "r">>)

UsesBracketKey(missingBranchType, symbolName) ==
  LET missingBranchName == GetSymbolEscapedName(missingBranchType)
  IN  /\ symbolName # <<>>
      /\ symbolName[1] # <<>>
      /\ missingBranchName # <<>>
      /\ RequiresQuoting(missingBranchName[1])

CaseTest(missingBranchType, symbolName) ==
  IF UsesBracketKey(missingBranchType, symbolName)
  THEN symbolName[1] \o <<"[", SQ>>
         \o EscapeBranchName(GetSymbolEscapedName(missingBranchType)[1])
         \o <<SQ, "]">>
  ELSE TypeToString(missingBranchType)

EscapedErrorMessage(caseTest) ==
  ReplaceAll(<<"Not implemented yet: ">> \o caseTest \o <<" case">>,
             SQ, <<BSL, SQ>>)

CaseCode(missingBranchType, symbolName) ==
  LET caseTest == CaseTest(missingBranchType, symbolName)
  IN  <<"case ">> \o caseTest \o <<": { throw new Error(", SQ>>
        \o EscapedErrorMessage(caseTest) \o <<SQ, ") }">>

DefaultCode == <<"default: { throw new Error(", SQ, "default case", SQ, ") }">>

\* MissingCases without the isIntersection check of lines 91-93
RECURSIVE MissingCases_KeepIntersections(_, _)
MissingCases_KeepIntersections(missingBranchTypes, symbolName) ==
  IF missingBranchTypes = <<>> THEN <<>>
  ELSE LET missingBranchType == Head(missingBranchTypes)
           rest == MissingCases_KeepIntersections(Tail(missingBranchTypes),
                                                  symbolName)
       IN  IF missingBranchType = Null THEN <<DefaultCode>> \o rest
           ELSE <<CaseCode(missingBranchType, symbolName)>> \o rest

RECURSIVE MissingCases(_, _)
MissingCases(missingBranchTypes, symbolName) ==
  IF missingBranchTypes = <<>> THEN <<>>
  ELSE LET missingBranchType == Head(missingBranchTypes)
           rest == MissingCases(Tail(missingBranchTypes), symbolName)
       IN  IF missingBranchType = Null THEN <<DefaultCode>> \o rest
           ELSE IF IsIntersection(missingBranchType) THEN rest
           ELSE <<CaseCode(missingBranchType, symbolName)>> \o rest

\* CaseIndent that takes the switch's column even when there are clauses
CaseIndent_SwitchColumn(node) == Repeat(" ", node.column)

CaseIndent(node) ==
  IF Len(node.cases) > 0
  THEN Repeat(" ", node.cases[Len(node.cases)].column)
  ELSE Repeat(" ", node.column)

FixString(node, missingBranchTypes, symbolName) ==
  LET missingCases == MissingCases(missingBranchTypes, symbolName)
  IN  Join([i \in 1..Len(missingCases) |-> CaseIndent(node) \o missingCases[i]],
           <<NL>>)

GetTokenAfter(tokens, value) ==
  LET i == CHOOSE k \in 1..Len(tokens) :
             /\ tokens[k].value = value
             /\ \A j \in 1..(k - 1) : tokens[j].value # value
  IN  tokens[i]

\* FixSwitch that leaves the closing brace of an empty switch unindented
FixSwitch_BraceNotIndented(node, missingBranchTypes, symbolName) ==
  LET fixString == FixString(node, missingBranchTypes, symbolName)
  IN  IF Len(node.cases) > 0
      THEN [kind |-> "insertTextAfter",
            range |-> <<Len(node.cases), Len(node.cases)>>,
            text |-> <<NL>> \o fixString]
      ELSE [kind |-> "replaceTextRange",
            range |-> <<GetTokenAfter(node.tokensAfter, "{").range[1],
                        GetTokenAfter(node.tokensAfter, "}").range[2]>>,
            text |-> Join(<< <<"{">>, fixString, <<"}">> >>, <<NL>>)]

FixSwitch(node, missingBranchTypes, symbolName) ==
  LET fixString == FixString(node, missingBranchTypes, symbolName)
  IN  IF Len(node.cases) > 0
      THEN [kind |-> "insertTextAfter",
            range |-> <<Len(node.cases), Len(node.cases)>>,
            text |-> <<NL>> \o fixString]
      ELSE [kind |-> "replaceTextRange",
            range |-> <<GetTokenAfter(node.tokensAfter, "{").range[1],
                        GetTokenAfter(node.tokensAfter, "}").range[2]>>,
            text |-> Join(<< <<"{">>, fixString, CaseIndent(node) \o <<"}">> >>,
                          <<NL>>)]

\* ------------------------------------------------- checkSwitchExhaustive
\* CollectCaseTypes that steps over a default clause instead of returning
RECURSIVE CollectCaseTypes_SkipDefault(_, _, _)
CollectCaseTypes_SkipDefault(cases, i, caseTypes) ==
  IF i > Len(cases) THEN [returned |-> FALSE, caseTypes |-> caseTypes]
  ELSE IF cases[i].test = Null
  THEN CollectCaseTypes_SkipDefault(cases, i + 1, caseTypes)
  ELSE CollectCaseTypes_SkipDefault(cases, i + 1,
         caseTypes \cup {GetConstrainedTypeAtLocation(cases[i].test)})

\* CollectCaseTypes that drops a type it meets a second time
RECURSIVE CollectCaseTypes_Toggle(_, _, _)
CollectCaseTypes_Toggle(cases, i, caseTypes) ==
  IF i > Len(cases) THEN [returned |-> FALSE, caseTypes |-> caseTypes]
  ELSE IF cases[i].test = Null THEN [returned |-> TRUE, caseTypes |-> caseTypes]
  ELSE LET t == GetConstrainedTypeAtLocation(cases[i].test)
       IN  CollectCaseTypes_Toggle(cases, i + 1,
             IF t \in caseTypes THEN caseTypes \ {t} ELSE caseTypes \cup {t})

RECURSIVE CollectCaseTypes(_, _, _)
CollectCaseTypes(cases, i, caseTypes) ==
  IF i > Len(cases) THEN [returned |-> FALSE, caseTypes |-> caseTypes]
  ELSE IF cases[i].test = Null THEN [returned |-> TRUE, caseTypes |-> caseTypes]
  ELSE CollectCaseTypes(cases, i + 1,
         caseTypes \cup {GetConstrainedTypeAtLocation(cases[i].test)})

\* MissingBranchTypes that compares types by their display string
MissingBranchTypes_ByDisplay(unionTypes, caseTypes) ==
  SelectSeq(unionTypes,
            LAMBDA unionType :
              \A caseType \in caseTypes :
                TypeToString(caseType) # TypeToString(unionType))

\* MissingBranchTypes that yields the missing members last to first
MissingBranchTypes_Reversed(unionTypes, caseTypes) ==
  LET kept == SelectSeq(unionTypes, LAMBDA unionType : unionType \notin caseTypes)
  IN  [k \in 1..Len(kept) |-> kept[Len(kept) + 1 - k]]

MissingBranchTypes(unionTypes, caseTypes) ==
  SelectSeq(unionTypes, LAMBDA unionType : unionType \notin caseTypes)

MissingBranchText(missingType) ==
  IF IsESSymbolLike(missingType)
  THEN <<"typeof ">> \o (IF GetSymbolEscapedName(missingType) = <<>>
                         THEN <<"undefined">>
                         ELSE GetSymbolEscapedName(missingType)[1])
  ELSE TypeToString(missingType)

MissingBranches(missingBranchTypes) ==
  Join([i \in 1..Len(missingBranchTypes) |->
          MissingBranchText(missingBranchTypes[i])],
       <<" | ">>)

\* HasDefault that looks at the last clause only
HasDefault_LastOnly(cases) ==
  Len(cases) > 0 /\ cases[Len(cases)].test = Null

HasDefault(cases) == \E i \in 1..Len(cases) : cases[i].test = Null

Report(missingBranches, missingBranchTypes, symbolName) ==
  [node |-> "discriminant",
   messageId |-> "switchIsNotExhaustive",
   data |-> [missingBranches |-> missingBranches],
   suggest |-> [messageId |-> "addMissingCases",
                missingBranchTypes |-> missingBranchTypes,
                symbolName |-> symbolName]]

CheckSwitchExhaustive(node, requireDefault) ==
  LET discriminantType == node.discriminant
      symbolName == discriminantType.symbol
  IN  IF discriminantType.isUnion
      THEN LET unionTypes == UnionTypeParts(discriminantType)
               scan == CollectCaseTypes(node.cases, 1, {})
               missingBranchTypes ==
                 MissingBranchTypes(unionTypes, scan.caseTypes)
           IN  IF scan.returned THEN <<>>
               ELSE IF Len(missingBranchTypes) = 0 THEN <<>>
               ELSE <<Report(MissingBranches(missingBranchTypes),
                             missingBranchTypes, symbolName)>>
      ELSE IF requireDefault
      THEN IF ~HasDefault(node.cases)
           THEN <<Report(<<"default">>, <<Null>>, <<>>)>>
           ELSE <<>>
      ELSE <<>>

\* ------------------------------------------------------ the visited nodes
SeqsUpTo(S, n) == UNION {[1..k -> S] : k \in 0..n}

\* the members of `enum E`; a union of them is the enum type, whose symbol
\* is E, any other union has no symbol
EnumMembers == {3, 4}

UnionTypes ==
  {[isUnion |-> TRUE, types |-> ts,
    symbol |-> IF \A i \in 1..Len(ts) : ts[i] \in EnumMembers
               THEN << <<"E">> >> ELSE <<>>] :
     ts \in {s \in SeqsUpTo(Handles, MaxUnion) :
               /\ Len(s) >= 2
               /\ \A i, j \in 1..Len(s) : i # j => s[i] # s[j]}}

NonUnionTypes ==
  {[isUnion |-> FALSE, types |-> <<>>, symbol |-> sym] :
     sym \in {<<>>, << <<"E">> >>}}

\* the tokens that follow the discriminant of `switch (x) {}` when the
\* statement starts at the given column of the first line
TokensAfter(column) ==
  << [value |-> ")", range |-> <<column + 9, column + 10>>],
     [value |-> "{", range |-> <<column + 11, column + 12>>],
     [value |-> "}", range |-> <<column + 12, column + 13>>] >>

\* a switch statement at a column, its clauses all at one column
SwitchNode(discriminantType, tests, column, caseColumn) ==
  [discriminant |-> discriminantType,
   cases |-> [i \in 1..Len(tests) |->
                [test |-> tests[i], column |-> caseColumn]],
   column |-> column,
   tokensAfter |-> IF tests = <<>> THEN TokensAfter(column) ELSE <<>>]

\* ------------------------------------------------------------------ state
VARIABLES requireDefaultForNonUnion, visited, reports, fixes

vars == <<requireDefaultForNonUnion, visited, reports, fixes>>

Init ==
  /\ requireDefaultForNonUnion \in BOOLEAN
  /\ visited = <<>>
  /\ reports = <<>>
  /\ fixes = <<>>

\* the SwitchStatement listener: one switch is analysed
SwitchStatement ==
  /\ visited = <<>>
  /\ \E discriminantType \in UnionTypes \cup NonUnionTypes,
        tests \in SeqsUpTo({Null} \cup Exprs, MaxCases),
        column \in 0..MaxColumn, caseColumn \in 0..MaxColumn :
       LET node == SwitchNode(discriminantType, tests, column, caseColumn)
       IN  /\ visited' = <<node>>
           /\ reports' = CheckSwitchExhaustive(node, requireDefaultForNonUnion)
  /\ fixes' = <<>>
  /\ UNCHANGED requireDefaultForNonUnion

\* the host asks the report's suggestion for its fix
SuggestFix ==
  /\ visited # <<>>
  /\ reports # <<>>
  /\ fixes = <<>>
  /\ fixes' = <<FixSwitch(visited[1],
                          reports[1].suggest.missingBranchTypes,
                          reports[1].suggest.symbolName)>>
  /\ UNCHANGED <<requireDefaultForNonUnion, visited, reports>>

\* the listener has returned; nothing of the visit is kept
Leave ==
  /\ visited # <<>>
  /\ visited' = <<>>
  /\ reports' = <<>>
  /\ fixes' = <<>>
  /\ UNCHANGED requireDefaultForNonUnion

Next ==
  \/ SwitchStatement
  \/ SuggestFix
  \/ Leave

Spec == Init /\ [][Next]_vars

\* ------------------------------------------------------------------------
\* Properties.  Helpers that read a state or take a text apart.

\* the pieces of a text between the occurrences of a separator token
SplitOn(s, sep) ==
  LET at == {i \in 1..Len(s) : s[i] = sep}
      cut(k) == IF k = 0 THEN 0
                ELSE IF k > Cardinality(at) THEN Len(s) + 1
                ELSE CHOOSE i \in at : Cardinality({j \in at : j < i}) = k - 1
  IN  [k \in 1..(Cardinality(at) + 1) |->
         SubSeq(s, cut(k - 1) + 1, cut(k) - 1)]

UnionVisited == visited # <<>> /\ visited[1].discriminant.isUnion

NonUnionVisited == visited # <<>> /\ ~visited[1].discriminant.isUnion

DefaultClauseAt(node, i) == node.cases[i].test = Null

NoDefaultClause(node) ==
  \A i \in 1..Len(node.cases) : ~DefaultClauseAt(node, i)

UnionWithoutDefault == UnionVisited /\ NoDefaultClause(visited[1])

ResolvedBy(node, t) ==
  \E i \in 1..Len(node.cases) :
    /\ ~DefaultClauseAt(node, i)
    /\ ExprTypes[node.cases[i].test] = t

PositionIn(seq, x) == CHOOSE k \in 1..Len(seq) : seq[k] = x

ReportedMissing == reports[1].suggest.missingBranchTypes

\* C1: for a union discriminant and no default clause, nothing is reported
\* iff every member of the union is the resolved type of some case test,
\* members being compared as handles, not as display strings.
C1_ExhaustiveIffEveryMemberResolved ==
  UnionWithoutDefault =>
    ( reports = <<>>
      <=> \A k \in 1..Len(visited[1].discriminant.types) :
            ResolvedBy(visited[1], visited[1].discriminant.types[k]) )

\* handle 1 is missing although a clause resolves to handle 2, which renders
\* to the same string
C1_Witness ==
  /\ UnionWithoutDefault
  /\ visited[1].discriminant.types = <<1, 3>>
  /\ ResolvedBy(visited[1], 2)
  /\ ResolvedBy(visited[1], 3)
  /\ TypeTable[1].display = TypeTable[2].display
  /\ reports # <<>>
  /\ ReportedMissing = <<1>>

\* C2: a switch with a default clause at any position is never reported,
\* union or not, whatever the option.
C2_DefaultNeverReported ==
  ( /\ visited # <<>>
    /\ \E i \in 1..Len(visited[1].cases) : DefaultClauseAt(visited[1], i) )
  => reports = <<>>

\* a union none of whose members is resolved, default clause first of two
C2_Witness ==
  /\ UnionVisited
  /\ Len(visited[1].cases) = 2
  /\ DefaultClauseAt(visited[1], 1)
  /\ ~DefaultClauseAt(visited[1], 2)
  /\ \A k \in 1..Len(visited[1].discriminant.types) :
       ~ResolvedBy(visited[1], visited[1].discriminant.types[k])
  /\ reports = <<>>

\* C3: a non-union switch is reported iff requireDefaultForNonUnion is set
\* and no clause is a default clause; the report's missingBranches is then
\* 'default' and its fix is made from the single sentinel: one default
\* clause throwing 'default case'.
C3_NonUnionReportedIffRequiredAndNoDefault ==
  NonUnionVisited =>
    /\ reports # <<>>
         <=> (requireDefaultForNonUnion /\ NoDefaultClause(visited[1]))
    /\ reports # <<>> =>
         /\ Len(reports) = 1
         /\ reports[1].data.missingBranches = <<"default">>
         /\ ReportedMissing = <<Null>>
    /\ fixes # <<>> =>
         LET lines == SplitOn(fixes[1].text, NL)
             clauses == SelectSeq(lines, LAMBDA l :
                          \E k \in 1..Len(l) : l[k] \notin {" ", "{", "}"})
         IN  /\ Len(clauses) = 1
             /\ SelectSeq(clauses[1], LAMBDA tok : tok # " ")
                  = <<"default: { throw new Error(", SQ, "default case",
                      SQ, ") }">>

C3_Witness ==
  /\ NonUnionVisited
  /\ requireDefaultForNonUnion
  /\ Len(visited[1].cases) = 2
  /\ NoDefaultClause(visited[1])
  /\ fixes # <<>>

\* C5: for a union discriminant and no default clause, the missing variants
\* are the union's members that no clause resolves, in the union's
\* declaration order, and the report is the same for every permutation of
\* the clauses.
C5_MissingInDeclarationOrder ==
  UnionWithoutDefault =>
    LET node == visited[1]
        unionTypes == node.discriminant.types
        missing == IF reports = <<>> THEN <<>> ELSE ReportedMissing
        n == Len(node.cases)
    IN  /\ {missing[k] : k \in 1..Len(missing)}
             = {t \in {unionTypes[k] : k \in 1..Len(unionTypes)} :
                  ~ResolvedBy(node, t)}
        /\ \A i, j \in 1..Len(missing) :
             i < j => PositionIn(unionTypes, missing[i])
                        < PositionIn(unionTypes, missing[j])
        /\ \A p \in Permutations(1..n) :
             CheckSwitchExhaustive(
               [node EXCEPT !.cases = [i \in 1..n |-> node.cases[p[i]]]],
               requireDefaultForNonUnion) = reports

\* both members missing, declared in the order 7, 5; the two clauses
\* resolve two other types
C5_Witness ==
  /\ UnionWithoutDefault
  /\ visited[1].discriminant.types = <<7, 5>>
  /\ Len(visited[1].cases) = 2
  /\ ExprTypes[visited[1].cases[1].test] # ExprTypes[visited[1].cases[2].test]
  /\ reports # <<>>
  /\ ReportedMissing = <<7, 5>>

\* C9: for a union discriminant and no default clause, one more clause, at
\* any position, whose test resolves to a type that a clause already
\* resolves leaves the report (missing variants, message) unchanged.
C9_DuplicateCoverageIdempotent ==
  UnionWithoutDefault =>
    LET node == visited[1]
        n == Len(node.cases)
    IN  \A e \in Exprs, at \in 0..n :
          ResolvedBy(node, ExprTypes[e]) =>
            CheckSwitchExhaustive(
              [node EXCEPT !.cases =
                 SubSeq(node.cases, 1, at)
                   \o <<[test |-> e, column |-> node.cases[1].column]>>
                   \o SubSeq(node.cases, at + 1, n)],
              requireDefaultForNonUnion) = reports

\* two clauses already resolve the member 1; the member 3 is missing
C9_Witness ==
  /\ UnionWithoutDefault
  /\ visited[1].discriminant.types = <<1, 3>>
  /\ Len(visited[1].cases) = 2
  /\ visited[1].cases[1].test = 1
  /\ visited[1].cases[2].test = 2
  /\ reports # <<>>
  /\ ReportedMissing = <<3>>

\* ------------------------------------------------ properties of the fix
UnionFixed == UnionVisited /\ reports # <<>> /\ fixes # <<>>

\* the lines of an edit that come from generated clauses: everything after
\* the leading newline of an insert-after edit, everything between the
\* delimiter lines of a replace-range edit
ClauseLines(edit) ==
  IF edit.kind = "insertTextAfter"
  THEN SplitOn(Tail(edit.text), NL)
  ELSE LET lines == SplitOn(edit.text, NL)
       IN  SubSeq(lines, 2, Len(lines) - 1)

NotIntersection(t) == ~TypeTable[t].isIntersection

\* the index of the quote that ends a single-quoted literal whose first
\* character is text[i], as a JavaScript lexer finds it; 0 if the literal
\* runs into a line end or the end of the text
RECURSIVE LiteralEnd(_, _)
LiteralEnd(text, i) ==
  IF i > Len(text) THEN 0
  ELSE IF text[i] = SQ THEN i
  ELSE IF text[i] \in {NL, CR} THEN 0
  ELSE IF text[i] = BSL THEN LiteralEnd(text, i + 2)
  ELSE LiteralEnd(text, i + 1)

\* the literals of the clause emitted for a variant end at their closing
\* quotes: the bracket key of the case test and the message of the Error
ClauseLiteralsWellFormed(t, symbolName) ==
  LET caseTest == CaseTest(t, symbolName)
      code == CaseCode(t, symbolName)
      keyOpen == Len(symbolName[1]) + 2
      messageOpen == Len(caseTest) + 3
  IN  /\ UsesBracketKey(t, symbolName) =>
           /\ caseTest[keyOpen] = SQ
           /\ LiteralEnd(caseTest, keyOpen + 1) = Len(caseTest) - 1
      /\ code[messageOpen] = SQ
      /\ LiteralEnd(code, messageOpen + 1) = Len(code) - 1

\* C4: every clause the fix emits is valid source: the single-quoted
\* bracket key of its case test and the single-quoted message of its Error
\* are well-formed string literals, whatever the variant's name holds.
C4_EmittedClausesWellFormed ==
  UnionFixed =>
    \A k \in 1..Len(ReportedMissing) :
      NotIntersection(ReportedMissing[k]) =>
        ClauseLiteralsWellFormed(ReportedMissing[k],
                                 reports[1].suggest.symbolName)

\* C6: the fix holds the clauses of the missing variants that are not
\* intersections, in their order, and no other; the message lists every
\* missing variant, the intersections by their display string.
C6_IntersectionListedNotFixed ==
  UnionFixed =>
    LET missing == ReportedMissing
        symbolName == reports[1].suggest.symbolName
        emitted == SelectSeq(missing, NotIntersection)
        lines == ClauseLines(fixes[1])
        indent == IF visited[1].cases = <<>> THEN visited[1].column
                  ELSE visited[1].cases[Len(visited[1].cases)].column
        listed == SplitOn(reports[1].data.missingBranches, " | ")
    IN  /\ IF emitted = <<>> THEN lines = << <<>> >>
           ELSE /\ Len(lines) = Len(emitted)
                /\ \A k \in 1..Len(emitted) :
                     lines[k] = [i \in 1..indent |-> " "]
                                  \o CaseCode(emitted[k], symbolName)
        /\ Len(listed) = Len(missing)
        /\ \A k \in 1..Len(missing) :
             ~NotIntersection(missing[k])
               => listed[k] = TypeTable[missing[k]].display

\* an intersection and another variant are missing
C6_Witness ==
  /\ UnionFixed
  /\ ReportedMissing = <<5, 3>>
  /\ Len(ClauseLines(fixes[1])) = 1
  /\ Len(SplitOn(reports[1].data.missingBranches, " | ")) = 2

\* the shape of an insert-after edit with the given number of clauses
InsertsClausesAfterLast(node, edit, count) ==
  LET lastColumn == node.cases[Len(node.cases)].column
      lines == ClauseLines(edit)
  IN  /\ edit.kind = "insertTextAfter"
      /\ edit.range = <<Len(node.cases), Len(node.cases)>>
      /\ Head(edit.text) = NL
      /\ IF count = 0 THEN lines = << <<>> >>
         ELSE /\ Len(lines) = count
              /\ \A k \in 1..count :
                   /\ Len(lines[k]) > lastColumn
                   /\ \A i \in 1..lastColumn : lines[k][i] = " "
                   /\ lines[k][lastColumn + 1] = "case "

TwoMissingFixedAfterClauses ==
  /\ UnionFixed
  /\ Len(visited[1].cases) >= 1
  /\ Len(ReportedMissing) = 2

\* C7 as stated: with at least one clause and 2 missing variants the fix is
\* one insert-after edit at the last clause that appends exactly 2 clauses,
\* one per line, each indented to the last clause's column.
C7_TwoMissingTwoClauses ==
  TwoMissingFixedAfterClauses =>
    InsertsClausesAfterLast(visited[1], fixes[1], 2)

\* C7 amended: ... appends one clause per missing variant that is not an
\* intersection type (2 when neither is), one per line, each indented to
\* the last clause's column.
C7_TwoMissingOneClausePerNonIntersection ==
  TwoMissingFixedAfterClauses =>
    InsertsClausesAfterLast(visited[1], fixes[1],
                            Len(SelectSeq(ReportedMissing, NotIntersection)))

\* two missing variants, neither an intersection, the last clause at
\* another column than the switch
C7_Witness ==
  /\ TwoMissingFixedAfterClauses
  /\ \A k \in 1..2 : NotIntersection(ReportedMissing[k])
  /\ visited[1].cases[Len(visited[1].cases)].column = 1
  /\ visited[1].column = 0
  /\ Len(ClauseLines(fixes[1])) = 2

\* C8: the insert-after edit is used iff the switch has a clause, else the
\* edit replaces the span from the opening to the closing brace by '{', a
\* newline, the generated clauses joined by newlines, a newline, and '}'
\* after as many spaces as the switch's start column.
C8_EmptySwitchReplaced ==
  (visited # <<>> /\ fixes # <<>>) =>
    LET node == visited[1]
        edit == fixes[1]
        lines == SplitOn(edit.text, NL)
        generated == MissingCases(ReportedMissing,
                                  reports[1].suggest.symbolName)
    IN  /\ Len(fixes) = 1
        /\ edit.kind \in {"insertTextAfter", "replaceTextRange"}
        /\ edit.kind = "insertTextAfter" <=> Len(node.cases) >= 1
        /\ Len(node.cases) = 0 =>
             /\ edit.range = <<node.column + 11, node.column + 13>>
             /\ Len(lines) >= 3
             /\ lines[1] = <<"{">>
             /\ lines[Len(lines)] = [i \in 1..node.column |-> " "] \o <<"}">>
             /\ ClauseLines(edit)
                  = IF generated = <<>> THEN << <<>> >>
                    ELSE [k \in 1..Len(generated) |->
                            [i \in 1..node.column |-> " "] \o generated[k]]

\* an indented switch without clauses, two clauses generated
C8_Witness ==
  /\ UnionFixed
  /\ visited[1].cases = <<>>
  /\ visited[1].column = 1
  /\ fixes[1].kind = "replaceTextRange"
  /\ Len(SplitOn(fixes[1].text, NL)) = 4

\* C10: the message renders the missing variants in their order, joined by
\* ' | ': a symbol-like variant as `typeof X`, X its declared symbol name,
\* any other variant as its display string.
C10_MessageRendersEachMissing ==
  (UnionVisited /\ reports # <<>>) =>
    LET missing == ReportedMissing
        listed == SplitOn(reports[1].data.missingBranches, " | ")
    IN  /\ Len(listed) = Len(missing)
        /\ \A k \in 1..Len(missing) :
             IF TypeTable[missing[k]].symbolLike
             THEN /\ TypeTable[missing[k]].symbol # <<>>
                  /\ listed[k] = <<"typeof ">> \o TypeTable[missing[k]].symbol[1]
             ELSE listed[k] = TypeTable[missing[k]].display

====
